---- MODULE Spec2Model ----
(***************************************************************************)
(* Model of the OpenAFE host driver (src/openafe.py): the checksum and     *)
(* frame codec (waitForMessage, sendCommandToMCU and their helpers) and    *)
(* the session operations built on them (constructor, command operations,  *)
(* receiveVoltammetryPoints).                                              *)
(*                                                                         *)
(* Strings and byte strings are sequences of character codes.              *)
(***************************************************************************)
EXTENDS Integers, Sequences, FiniteSets, TLC

VARIABLES
    pc,               \* position of the caller: codec harness step or session state
    command,          \* the command string handed to sendCommandToMCU
    written,          \* bytes of the last ser.write (<<>> when nothing was written)
    nWrites,          \* number of ser.write calls that completed
    line,             \* bytes returned by the last ser.readline()
    source,           \* where the last line came from (echo, device frame, corrupted frame)
    message,          \* outcome of the last waitForMessage call
    byte,             \* checksum value under test (checksum codec)
    checksumString,   \* text produced by format(checksum, '02X')
    integerChecksum,  \* value returned by _getChecksumIntegerFromString
    nReads,           \* number of ser.readline calls made
    onPointCallback,  \* self.onPointCallback: "None" or "callable"
    onEndCallback,    \* self.onEndCallback: "None" or "callable"
    points,           \* onPointCallback invocations of the current run, in order
    ends,             \* onEndCallback invocations of the current run
    last,             \* what the last operation (or loop iteration) did
    measurement       \* the last measurement command written, and its acknowledgement

vars == <<pc, command, written, nWrites, line, source, message, byte,
          checksumString, integerChecksum, nReads, onPointCallback,
          onEndCallback, points, ends, last, measurement>>

codecVars == <<command, written, nWrites, line, source, message>>
checksumVars == <<byte, checksumString, integerChecksum>>
sessionVars == <<nReads, onPointCallback, onEndCallback, points, ends, last, measurement>>

(***************************************************************************)
(* Bounds of the model.                                                    *)
(***************************************************************************)
MaxLen == 3          \* longest payload of the codec harness
MaxReads == 4        \* readline calls per session
MaxRuns == 2         \* runs counted after one measurement command

(***************************************************************************)
(* String literals: S("MSG,RDY") is the sequence of character codes.       *)
(***************************************************************************)
Punct == ",-./0123456789"
Upper == "ABCDEFGHIJKLMNOPQRSTUVWXYZ"
Lower == "abcdefghijklmnopqrstuvwxyz"
Has(tab, c) == \E i \in 1..Len(tab) : SubSeq(tab, i, i) = c
Pos(tab, c) == CHOOSE i \in 1..Len(tab) : SubSeq(tab, i, i) = c
Ord(c) ==
    IF Has(Punct, c) THEN 43 + Pos(Punct, c)
    ELSE IF Has(Upper, c) THEN 64 + Pos(Upper, c)
    ELSE 96 + Pos(Lower, c)
S(s) == [i \in 1..Len(s) |-> Ord(SubSeq(s, i, i))]

DOLLAR == <<36>>
STAR == <<42>>
LF == <<10>>
CRLF == <<13, 10>>

(***************************************************************************)
(* Python integer and slice primitives.                                    *)
(***************************************************************************)
RECURSIVE Pow2(_)
Pow2(n) == IF n = 0 THEN 1 ELSE 2 * Pow2(n - 1)

\* a ^ b on non-negative integers
RECURSIVE Xor(_, _)
Xor(a, b) ==
    IF a = 0 THEN b
    ELSE IF b = 0 THEN a
    ELSE 2 * Xor(a \div 2, b \div 2) + ((a + b) % 2)

RECURSIVE OrNat(_, _)
OrNat(a, b) ==
    IF a = 0 THEN b
    ELSE IF b = 0 THEN a
    ELSE 2 * OrNat(a \div 2, b \div 2) + (IF (a % 2) + (b % 2) > 0 THEN 1 ELSE 0)

\* a | b on Python integers (two's complement of unbounded width).  Every
\* operand of the driver lies in -2^15 .. 2^15 - 1, where 16 bits are exact.
PyOr(a, b) ==
    LET u == OrNat(a % Pow2(16), b % Pow2(16))
    IN  IF u >= Pow2(15) THEN u - Pow2(16) ELSE u

\* x << n for n >= 0
PyShl(x, n) == x * Pow2(n)

\* s[n:]
SliceFrom(s, n) == IF Len(s) <= n THEN <<>> ELSE SubSeq(s, n + 1, Len(s))
\* s[:-n]
DropLast(s, n) == IF Len(s) <= n THEN <<>> ELSE SubSeq(s, 1, Len(s) - n)
\* s[-n:]
TakeLast(s, n) == IF Len(s) <= n THEN s ELSE SubSeq(s, Len(s) - n + 1, Len(s))

RECURSIVE Concat(_)
Concat(ss) == IF ss = <<>> THEN <<>> ELSE Head(ss) \o Concat(Tail(ss))

StartsWith(s, prefix) ==
    /\ Len(s) >= Len(prefix)
    /\ SubSeq(s, 1, Len(prefix)) = prefix

(***************************************************************************)
(* Conversions of the Python runtime that the driver relies on.            *)
(***************************************************************************)
HexDigitUpper(d) == IF d < 10 THEN 48 + d ELSE 55 + d
HexDigitLower(d) == IF d < 10 THEN 48 + d ELSE 87 + d

\* format(n, 'X'): uppercase hexadecimal without padding
RECURSIVE FormatX(_)
FormatX(n) ==
    IF n < 16 THEN <<HexDigitUpper(n)>>
    ELSE FormatX(n \div 16) \o <<HexDigitUpper(n % 16)>>

\* format(n, '02X'): uppercase hexadecimal, zero-padded to two characters
Format02X(n) == IF n < 16 THEN <<48>> \o FormatX(n) ELSE FormatX(n)

\* str.encode("utf-8") for code points below 0x800
Utf8Char(c) == IF c < 128 THEN <<c>> ELSE <<192 + (c \div 64), 128 + (c % 64)>>
Utf8Encode(s) == Concat([i \in 1..Len(s) |-> Utf8Char(s[i])])

\* str(bytes): the characters of b'...' as Python prints a bytes object.
\* The quote is " when the bytes hold a ' and no ", otherwise '.
ReprQuote(bs) ==
    IF (\E i \in 1..Len(bs) : bs[i] = 39) /\ ~(\E i \in 1..Len(bs) : bs[i] = 34)
    THEN 34 ELSE 39

ReprByte(b, quote) ==
    IF b = 92 THEN <<92, 92>>
    ELSE IF b = quote THEN <<92, b>>
    ELSE IF b = 9 THEN <<92, 116>>
    ELSE IF b = 10 THEN <<92, 110>>
    ELSE IF b = 13 THEN <<92, 114>>
    ELSE IF b < 32 \/ b >= 127
         THEN <<92, 120, HexDigitLower(b \div 16), HexDigitLower(b % 16)>>
    ELSE <<b>>

BytesStr(bs) ==
    LET quote == ReprQuote(bs)
    IN  <<98, quote>> \o Concat([i \in 1..Len(bs) |-> ReprByte(bs[i], quote)]) \o <<quote>>

\* ser.readline() on a byte stream: everything up to and including the first LF
ReadLine(stream) ==
    LET k == CHOOSE i \in 1..Len(stream) :
                 /\ stream[i] = 10
                 /\ \A j \in 1..(i - 1) : stream[j] # 10
    IN  SubSeq(stream, 1, k)

(***************************************************************************)
(* Checksum codec.                                                         *)
(***************************************************************************)
RECURSIVE calculateChecksumOfString(_)
calculateChecksumOfString(string) ==
    IF string = <<>> THEN 0
    ELSE Xor(calculateChecksumOfString(DropLast(string, 1)), string[Len(string)])

\* the letter branch (ord(char) - 0x37) lost: every character taken as a digit
NibbleOfCharDigitsOnly(char) == char - 48

NibbleOfChar(char) == IF char < 65 THEN char - 48 ELSE char - 55

\* the loop of _getChecksumIntegerFromString; index starts at 1 and is
\* decremented per character, a negative shift count raises ValueError
RECURSIVE ChecksumLoop(_, _, _)
ChecksumLoop(s, index, acc) ==
    IF s = <<>> THEN acc
    ELSE IF index < 0 THEN "ValueError"
    ELSE ChecksumLoop(Tail(s), index - 1,
                      PyOr(acc, PyShl(NibbleOfChar(Head(s)), index * 4)))

getChecksumIntegerFromString(s) == ChecksumLoop(s, 1, 0)

(***************************************************************************)
(* Frame codec.                                                            *)
(***************************************************************************)
Returned(m) == [ok |-> TRUE, msg |-> m, err |-> "none"]
Raised(e) == [ok |-> FALSE, msg |-> <<>>, err |-> e]
NoMessage == [ok |-> FALSE, msg |-> <<>>, err |-> "not read"]

\* sendCommandToMCU, lines 155-159: the bytes handed to ser.write
FullCommand(cmd) ==
    Utf8Encode(DOLLAR \o cmd \o STAR \o Format02X(calculateChecksumOfString(cmd)))

\* waitForMessage, lines 52-66, applied to the bytes readline returned
waitForMessage(raw) ==
    LET rawMessage == BytesStr(raw)
        messageReceived == DropLast(SliceFrom(rawMessage, 2), 3)
        checksum == TakeLast(messageReceived, 2)
        body == DropLast(SliceFrom(messageReceived, 1), 3)
        calculatedChecksum == calculateChecksumOfString(body)
        checksumInMessage == getChecksumIntegerFromString(checksum)
    IN  IF calculatedChecksum - checksumInMessage = 0
        THEN Returned(body)
        ELSE Raised("corrupted")

\* a frame as the device sends it: $<payload>*<HH> and a line terminator
DeviceFrame(payload, terminator) ==
    DOLLAR \o payload \o STAR \o Format02X(calculateChecksumOfString(payload)) \o terminator

\* bit k of byte i of the payload of a frame inverted in transit
FlipBit(b, k) == IF (b \div Pow2(k)) % 2 = 1 THEN b - Pow2(k) ELSE b + Pow2(k)
FlipPayloadBit(payload, i, k) == [payload EXCEPT ![i] = FlipBit(payload[i], k)]
CorruptedFrame(payload, i, k, terminator) ==
    DOLLAR \o FlipPayloadBit(payload, i, k) \o STAR
           \o Format02X(calculateChecksumOfString(payload)) \o terminator

(***************************************************************************)
(* Checksum codec harness: every byte is formatted, then parsed back.      *)
(***************************************************************************)
Bytes == 0..255

NoOperation ==
    [op |-> "none", raised |-> FALSE, error |-> "none", reason |-> "none",
     ret |-> "n/a", wrote |-> FALSE, read |-> FALSE, event |-> "none",
     args |-> <<>>]

\* no measurement command has been written
\* code: the operation code written; acknowledged: the operation returned;
\* frames: the data-point frames read since the command, its reply included;
\* lost: the data-point frames among them read by sendCommandToMCU;
\* runs: the receiveVoltammetryPoints runs begun since the command
NoMeasurement ==
    [code |-> <<>>, acknowledged |-> FALSE, frames |-> 0, lost |-> 0, runs |-> 0]

SessionIdle ==
    /\ measurement = NoMeasurement
    /\ nReads = 0
    /\ onPointCallback = "None"
    /\ onEndCallback = "None"
    /\ points = <<>>
    /\ ends = 0
    /\ last = NoOperation

CodecIdle ==
    /\ command = <<>>
    /\ written = <<>>
    /\ nWrites = 0
    /\ line = <<>>
    /\ source = "none"
    /\ message = NoMessage

ChecksumIdle ==
    /\ byte = 0
    /\ checksumString = <<>>
    /\ integerChecksum = 0

InitChecksum ==
    /\ pc = "byte"
    /\ byte \in Bytes
    /\ checksumString = <<>>
    /\ integerChecksum = 0
    /\ CodecIdle
    /\ SessionIdle

FormatChecksum ==
    /\ pc = "byte"
    /\ checksumString' = Format02X(byte)
    /\ pc' = "text"
    /\ UNCHANGED <<byte, integerChecksum, codecVars, sessionVars>>

ParseChecksum ==
    /\ pc = "text"
    /\ integerChecksum' = getChecksumIntegerFromString(checksumString)
    /\ pc' = "parsed"
    /\ UNCHANGED <<byte, checksumString, codecVars, sessionVars>>

NextChecksum == FormatChecksum \/ ParseChecksum

SpecChecksum == InitChecksum /\ [][NextChecksum]_vars

(***************************************************************************)
(* Frame codec harness: a payload is sent; a line comes back (the written  *)
(* bytes echoed, a device frame for the same payload, or such a frame with *)
(* one payload bit inverted); waitForMessage decodes the line.             *)
(***************************************************************************)
\* '0', 'A', 'J', backslash, ' and ": printable, none of them $ or *
Alphabet == {48, 65, 74, 92, 39, 34}
Payloads == UNION {[1..n -> Alphabet] : n \in 1..MaxLen}
Terminators == {LF, CRLF}

InitCodec ==
    /\ pc = "start"
    /\ command \in Payloads
    /\ written = <<>>
    /\ nWrites = 0
    /\ line = <<>>
    /\ source = "none"
    /\ message = NoMessage
    /\ ChecksumIdle
    /\ SessionIdle

CodecSend ==
    /\ pc = "start"
    /\ written' = FullCommand(command)
    /\ nWrites' = nWrites + 1
    /\ pc' = "sent"
    /\ UNCHANGED <<command, line, source, message, checksumVars, sessionVars>>

TransportEcho ==
    /\ pc = "sent"
    /\ line' = written
    /\ source' = "echo"
    /\ pc' = "line"
    /\ UNCHANGED <<command, written, nWrites, message, checksumVars, sessionVars>>

DeviceSendsFrame ==
    /\ pc = "sent"
    /\ \E t \in Terminators :
          /\ line' = ReadLine(DeviceFrame(command, t))
          /\ source' = IF t = LF THEN "lf" ELSE "crlf"
    /\ pc' = "line"
    /\ UNCHANGED <<command, written, nWrites, message, checksumVars, sessionVars>>

DeviceSendsCorrupted ==
    /\ pc = "sent"
    /\ \E t \in Terminators, i \in 1..Len(command), k \in 0..7 :
          line' = ReadLine(CorruptedFrame(command, i, k, t))
    /\ source' = "flip"
    /\ pc' = "line"
    /\ UNCHANGED <<command, written, nWrites, message, checksumVars, sessionVars>>

CodecReceive ==
    /\ pc = "line"
    /\ message' = waitForMessage(line)
    /\ pc' = "decoded"
    /\ UNCHANGED <<command, written, nWrites, line, source, checksumVars, sessionVars>>

NextCodec ==
    \/ CodecSend
    \/ TransportEcho
    \/ DeviceSendsFrame
    \/ DeviceSendsCorrupted
    \/ CodecReceive

SpecCodec == InitCodec /\ [][NextCodec]_vars

(***************************************************************************)
(* Session: the constructor, the command operations and the receive loop.  *)
(* The device is the environment: every readline returns one of            *)
(* DeviceLines or fails, every open and write may fail.                    *)
(***************************************************************************)
MSG_RDY == S("MSG,RDY")
MSG_END == S("MSG,END")
ERR == S("ERR")

DevicePayloads ==
    { MSG_RDY, MSG_END,
      S("ERR,123"), S("ERR,12"), S("ERR,12,34"),
      S("CVW,1.5,-0.25"), S("CVW,7"), S("DPV,1,2,3"), S("XYZ,3,4"), S("CVW,x,1") }

\* a frame whose checksum field does not match its payload
BadChecksumLine == DOLLAR \o MSG_END \o STAR \o S("00") \o LF
\* the ready payload and its checksum without the $ and * delimiters
NoEnvelopeLine ==
    <<35>> \o MSG_RDY \o <<35>> \o Format02X(calculateChecksumOfString(MSG_RDY)) \o LF

\* the ready frame with the checksum field "3:", whose second character is
\* not a hexadecimal digit
MalformedChecksumLine == DOLLAR \o MSG_RDY \o STAR \o <<51, 58>> \o LF

DeviceLines ==
    {DeviceFrame(p, LF) : p \in DevicePayloads}
      \cup {DeviceFrame(p, CRLF) : p \in {MSG_RDY, MSG_END}}
      \cup {BadChecksumLine, NoEnvelopeLine, MalformedChecksumLine}

\* what one ser.readline() call does: it returns a line of the device, or
\* raises SerialException (ReadFailure)
ReadFailure == <<-1>>
ReadOutcomes == DeviceLines \cup {ReadFailure}

Callbacks == {"None", "callable"}

\* str(n) for a Python int
RECURSIVE DigitsOf(_)
DigitsOf(n) == IF n < 10 THEN <<48 + n>> ELSE DigitsOf(n \div 10) \o <<48 + (n % 10)>>
IntStr(n) == IF n < 0 THEN <<45>> \o DigitsOf(0 - n) ELSE DigitsOf(n)

\* string.split(',')
RECURSIVE Split(_)
Split(s) ==
    IF \E i \in 1..Len(s) : s[i] = 44
    THEN LET k == CHOOSE i \in 1..Len(s) : s[i] = 44 /\ \A j \in 1..(i - 1) : s[j] # 44
         IN  <<SubSeq(s, 1, k - 1)>> \o Split(SubSeq(s, k + 1, Len(s)))
    ELSE <<s>>

\* float(text) for the texts of DevicePayloads: an optional sign, decimal
\* digits and at most one point, with at least one digit; anything else
\* raises ValueError.  The value is num / 10^scale without trailing zeros.
IsDigit(c) == c >= 48 /\ c <= 57
RECURSIVE DigitsValue(_)
DigitsValue(ds) ==
    IF ds = <<>> THEN 0 ELSE 10 * DigitsValue(DropLast(ds, 1)) + (ds[Len(ds)] - 48)
RECURSIVE Normalise(_, _)
Normalise(num, scale) ==
    IF scale > 0 /\ num % 10 = 0 THEN Normalise(num \div 10, scale - 1)
    ELSE [num |-> num, scale |-> scale]
Unsigned(text) == IF text # <<>> /\ text[1] \in {43, 45} THEN Tail(text) ELSE text
IsFloat(text) ==
    LET u == Unsigned(text)
        dots == {i \in 1..Len(u) : u[i] = 46}
    IN  /\ \A i \in 1..Len(u) : IsDigit(u[i]) \/ u[i] = 46
        /\ Cardinality(dots) <= 1
        /\ \E i \in 1..Len(u) : IsDigit(u[i])
Float(text) ==
    LET u == Unsigned(text)
        digits == SelectSeq(u, IsDigit)
        scale == IF \E i \in 1..Len(u) : u[i] = 46
                 THEN Len(u) - (CHOOSE i \in 1..Len(u) : u[i] = 46)
                 ELSE 0
        n == Normalise(DigitsValue(digits), scale)
    IN  [num |-> IF text[1] = 45 THEN 0 - n.num ELSE n.num, scale |-> n.scale]

isValidMessage(m) == FALSE   \* message == -1: waitForMessage never returns -1

isErrorMessage(m) == DropLast(m, 4) = ERR

\* waitForMessage, lines 47-66, for each outcome of readline
Received ==
    [r \in ReadOutcomes |->
        IF r = ReadFailure THEN Raised("Failed to read") ELSE waitForMessage(r)]
LineOf(r) == IF r = ReadFailure THEN <<>> ELSE r

\* the end callback is never invoked
onVoltammetryEndSkipped(callback, n) == n

onVoltammetryEnd(callback, n) == IF callback = "callable" THEN n + 1 ELSE n

onVoltammetryPoint(callback, calls, voltage, current) ==
    IF callback = "callable" THEN Append(calls, <<voltage, current>>) ELSE calls

Init ==
    /\ pc = "new"
    /\ CodecIdle
    /\ ChecksumIdle
    /\ SessionIdle

\* serial.Serial(comPort, 115200) raises SerialException
OpenFailure == <<-2>>

\* what __init__ raises when the port cannot be opened or the first line is
\* read with outcome r: the message of the raised Exception and its Reason
InitOutcome(r) ==
    LET openFails == r = OpenFailure
        m == IF openFails THEN NoMessage ELSE Received[r]
        ready == m.ok /\ ~(m.msg # MSG_RDY \/ isValidMessage(m.msg))
    IN  IF openFails
        THEN [raised |-> TRUE, error |-> "Failed to stablish connection", reason |-> "none"]
        ELSE IF ready
        THEN [raised |-> FALSE, error |-> "none", reason |-> "none"]
        ELSE [raised |-> TRUE, error |-> "Could not initiate communication",
              reason |-> IF m.ok THEN "OpenAFE is not ready!" ELSE m.err]

\* OpenAFE.__init__
Construct ==
    /\ pc = "new"
    /\ \E cbPoint \in Callbacks, cbEnd \in Callbacks, r \in ReadOutcomes \cup {OpenFailure} :
          LET openFails == r = OpenFailure
              m == IF openFails THEN NoMessage ELSE Received[r]
              o == InitOutcome(r)
          IN  /\ onPointCallback' = cbPoint
              /\ onEndCallback' = cbEnd
              /\ IF openFails
                 THEN /\ pc' = "failed"
                      /\ last' = [NoOperation EXCEPT !.op = "__init__", !.raised = o.raised,
                                     !.error = o.error, !.reason = o.reason]
                      /\ UNCHANGED <<line, message, nReads>>
                 ELSE /\ nReads' = nReads + 1
                      /\ line' = LineOf(r)
                      /\ message' = m
                      /\ pc' = IF o.raised THEN "failed" ELSE "idle"
                      /\ last' = [NoOperation EXCEPT
                                     !.op = "__init__",
                                     !.read = TRUE,
                                     !.raised = o.raised,
                                     !.error = o.error,
                                     !.reason = o.reason]
    /\ UNCHANGED <<command, written, nWrites, source, points, ends, measurement,
                   checksumVars>>

CurrentRanges == {25, 100}
CMD_CUR == S("CMD,CUR,")
CVW == S("CVW")
DPV == S("DPV")
SWV == S("SWV")
CVArguments == {<<1000, -500, 500, 200, 5, 2>>, <<0, 7, -7, 10, 1, 3>>}
DPVArguments == {<<0, -200, 200, 50, -4, 20, 80, 11, 12>>}
SWVArguments == {<<500, -300, 300, 25, 40, 15, 0>>}
COMMA == <<44>>

\* "CMD,CUR," + str(currentRange)
CurrentRangeCommandString(currentRange) == CMD_CUR \o IntStr(currentRange)

\* the starting and the ending potential change places
CVCommandStringSwapped(settlingTime, startingPotential, endingPotential, scanRate, stepSize, numberOfCycles) ==
    CVW \o COMMA \o IntStr(settlingTime) \o COMMA \o IntStr(endingPotential)
        \o COMMA \o IntStr(startingPotential) \o COMMA \o IntStr(scanRate)
        \o COMMA \o IntStr(stepSize) \o COMMA \o IntStr(numberOfCycles)

CVCommandString(settlingTime, startingPotential, endingPotential, scanRate, stepSize, numberOfCycles) ==
    CVW \o COMMA \o IntStr(settlingTime) \o COMMA \o IntStr(startingPotential)
        \o COMMA \o IntStr(endingPotential) \o COMMA \o IntStr(scanRate)
        \o COMMA \o IntStr(stepSize) \o COMMA \o IntStr(numberOfCycles)

DPVCommandString(settlingTime, startingPotential, endingPotential, pulsePotential, stepPotential, pulseWidth, baseWidth, samplePeriodPulse, samplePeriodBase) ==
    DPV \o COMMA \o IntStr(settlingTime) \o COMMA \o IntStr(startingPotential)
        \o COMMA \o IntStr(endingPotential) \o COMMA \o IntStr(pulsePotential)
        \o COMMA \o IntStr(stepPotential) \o COMMA \o IntStr(pulseWidth)
        \o COMMA \o IntStr(baseWidth) \o COMMA \o IntStr(samplePeriodPulse)
        \o COMMA \o IntStr(samplePeriodBase)

SWVCommandString(settlingTime, startingPotential, endingPotential, scanRate, pulsePotential, pulseFrequency, samplePeriodPulse) ==
    SWV \o COMMA \o IntStr(settlingTime) \o COMMA \o IntStr(startingPotential)
        \o COMMA \o IntStr(endingPotential) \o COMMA \o IntStr(scanRate)
        \o COMMA \o IntStr(pulsePotential) \o COMMA \o IntStr(pulseFrequency)
        \o COMMA \o IntStr(samplePeriodPulse)

\* the command strings of the argument values above, and the bytes
\* sendCommandToMCU writes for each
CurrentRangeCommand ==
    [c \in CurrentRanges |-> CurrentRangeCommandString(c)]
CVCommand ==
    [a \in CVArguments |-> CVCommandString(a[1], a[2], a[3], a[4], a[5], a[6])]
DPVCommand ==
    [a \in DPVArguments |->
        DPVCommandString(a[1], a[2], a[3], a[4], a[5], a[6], a[7], a[8], a[9])]
SWVCommand ==
    [a \in SWVArguments |-> SWVCommandString(a[1], a[2], a[3], a[4], a[5], a[6], a[7])]
CommandStrings ==
    {CurrentRangeCommand[c] : c \in CurrentRanges}
      \cup {CVCommand[a] : a \in CVArguments}
      \cup {DPVCommand[a] : a \in DPVArguments}
      \cup {SWVCommand[a] : a \in SWVArguments}
Written == [cmd \in CommandStrings |-> FullCommand(cmd)]

\* a data-point payload: an operation code and two numeric fields
IsDataPoint(m) ==
    LET fields == Split(m)
    IN  /\ Len(fields) = 3
        /\ fields[1] \in {CVW, DPV, SWV}
        /\ IsFloat(fields[2])
        /\ IsFloat(fields[3])
PointOf(m) == <<Float(Split(m)[2]), Float(Split(m)[3])>>

\* for each outcome of readline, whether the device sent a data-point frame
DataPointFrame ==
    [r \in ReadOutcomes |-> Received[r].ok /\ IsDataPoint(Received[r].msg)]

\* the operation code each measurement operation writes; <<>> for the others
OperationCode(op) ==
    IF op = "makeCyclicVoltammetry" THEN CVW
    ELSE IF op = "makeDifferentialPulseVoltammetry" THEN DPV
    ELSE IF op = "makeSquareWaveVoltammetry" THEN SWV
    ELSE <<>>

\* self.ser.write raises SerialException
WriteFailure == <<-3>>

\* what a command operation raises when the write fails or the reply is
\* read with outcome r.  A SerialException of the write is re-raised as
\* Exception("Failed send command ..."); every other exception reaches the
\* clause `raise("...", e)`, which raises TypeError, since a tuple is not
\* an exception.
CommandOutcome(r, wrapper) ==
    LET writeFails == r = WriteFailure
        m == IF writeFails THEN NoMessage ELSE Received[r]
        declined == m.ok /\ isErrorMessage(m.msg)
        failed == ~m.ok \/ declined
    IN  IF writeFails
        THEN [raised |-> TRUE, error |-> wrapper, reason |-> "Failed send command"]
        ELSE IF failed
        THEN [raised |-> TRUE, error |-> wrapper, reason |-> "TypeError"]
        ELSE [raised |-> FALSE, error |-> "none", reason |-> "none"]

\* sendCommandToMCU(cmd) called by operation op with the arguments args,
\* whose except clause raises Exception(wrapper, e)
CommandOperation(op, args, cmd, wrapper) ==
    /\ pc = "idle"
    /\ nReads < MaxReads
    /\ command' = cmd
    /\ \E r \in ReadOutcomes \cup {WriteFailure} :
          LET writeFails == r = WriteFailure
              m == IF writeFails THEN NoMessage ELSE Received[r]
              o == CommandOutcome(r, wrapper)
              failed == o.raised
          IN  IF writeFails
              THEN /\ last' = [NoOperation EXCEPT !.op = op, !.raised = o.raised,
                                  !.args = args,
                                  !.error = o.error,
                                  !.reason = o.reason]
                   /\ UNCHANGED <<written, nWrites, line, message, nReads, measurement>>
              ELSE /\ written' = Written[cmd]
                   /\ measurement' = IF OperationCode(op) = <<>> THEN measurement
                                     ELSE [code |-> OperationCode(op),
                                           acknowledged |-> ~o.raised,
                                           frames |-> IF DataPointFrame[r] THEN 1 ELSE 0,
                                           lost |-> IF DataPointFrame[r] THEN 1 ELSE 0,
                                           runs |-> 0]
                   /\ nWrites' = nWrites + 1
                   /\ nReads' = nReads + 1
                   /\ line' = LineOf(r)
                   /\ message' = m
                   /\ last' = [NoOperation EXCEPT
                                  !.op = op,
                                  !.args = args,
                                  !.wrote = TRUE,
                                  !.read = TRUE,
                                  !.raised = o.raised,
                                  !.error = o.error,
                                  !.reason = o.reason,
                                  !.ret = IF failed THEN "n/a" ELSE "None"]
    /\ UNCHANGED <<pc, source, onPointCallback, onEndCallback, points, ends, checksumVars>>

setCurrentRange ==
    \E currentRange \in CurrentRanges :
        CommandOperation("setCurrentRange", <<currentRange>>,
                         CurrentRangeCommand[currentRange],
                         "Could not chanhge the current range setting")

makeCyclicVoltammetry ==
    \E a \in CVArguments :
        CommandOperation("makeCyclicVoltammetry", a,
                         CVCommand[a],
                         "Could not send the Cyclic Voltammetry")

makeDifferentialPulseVoltammetry ==
    \E a \in DPVArguments :
        CommandOperation("makeDifferentialPulseVoltammetry", a,
                         DPVCommand[a],
                         "Could not send the Differential Pulse Voltammetry")

makeSquareWaveVoltammetry ==
    \E a \in SWVArguments :
        CommandOperation("makeSquareWaveVoltammetry", a,
                         SWVCommand[a],
                         "Could not send the Square Wave Voltammetry")

\* receiveVoltammetryPoints is entered: a new run begins
receiveVoltammetryPoints ==
    /\ pc = "idle"
    /\ pc' = "receiving"
    /\ points' = <<>>
    /\ ends' = 0
    /\ last' = [NoOperation EXCEPT !.op = "receiveVoltammetryPoints", !.event = "enter"]
    /\ measurement' = IF measurement.code = <<>> THEN measurement
                      ELSE [measurement EXCEPT
                               !.runs = IF @ < MaxRuns THEN @ + 1 ELSE @]
    /\ UNCHANGED <<codecVars, checksumVars, nReads, onPointCallback, onEndCallback>>

\* a loop that drops a corrupted line and reads on
ReceiveOutcomeSkipCorrupted(m) ==
    LET messageReceived == m.msg
        pointObjs == Split(SliceFrom(messageReceived, 4))
    IN  IF ~m.ok
        THEN (IF m.err = "corrupted" THEN [event |-> "skipped", reason |-> "none"]
              ELSE [event |-> "raised", reason |-> m.err])
        ELSE IF messageReceived = MSG_END
        THEN [event |-> "end", reason |-> "none"]
        ELSE IF DropLast(messageReceived, 4) = ERR
        THEN [event |-> "raised", reason |-> "An error ocurred during the voltammetry."]
        ELSE IF ~IsFloat(pointObjs[1])
        THEN [event |-> "raised", reason |-> "ValueError"]
        ELSE IF Len(pointObjs) < 2
        THEN [event |-> "raised", reason |-> "IndexError"]
        ELSE IF ~IsFloat(pointObjs[2])
        THEN [event |-> "raised", reason |-> "ValueError"]
        ELSE [event |-> "point", reason |-> "none"]

\* what one iteration of the while loop does with the result m of
\* waitForMessage: deliver a point, deliver the end, or raise
ReceiveOutcome(m) ==
    LET messageReceived == m.msg
        point == SliceFrom(messageReceived, 4)
        pointObjs == Split(point)
    IN  IF ~m.ok
        THEN [event |-> "raised", reason |-> m.err]
        ELSE IF messageReceived = MSG_END
        THEN [event |-> "end", reason |-> "none"]
        ELSE IF DropLast(messageReceived, 4) = ERR
        THEN [event |-> "raised", reason |-> "An error ocurred during the voltammetry."]
        ELSE IF ~IsFloat(pointObjs[1])
        THEN [event |-> "raised", reason |-> "ValueError"]
        ELSE IF Len(pointObjs) < 2
        THEN [event |-> "raised", reason |-> "IndexError"]
        ELSE IF ~IsFloat(pointObjs[2])
        THEN [event |-> "raised", reason |-> "ValueError"]
        ELSE [event |-> "point", reason |-> "none"]

\* one iteration of the while loop of receiveVoltammetryPoints
ReceiveIteration ==
    /\ pc = "receiving"
    /\ nReads < MaxReads
    /\ \E r \in ReadOutcomes :
          LET m == Received[r]
              pointObjs == Split(SliceFrom(m.msg, 4))
              o == ReceiveOutcome(m)
          IN  /\ nReads' = nReads + 1
              /\ line' = LineOf(r)
              /\ message' = m
              /\ last' = [NoOperation EXCEPT !.op = "receiveVoltammetryPoints",
                             !.read = TRUE, !.event = o.event,
                             !.raised = o.event = "raised",
                             !.error = o.reason, !.reason = o.reason]
              /\ measurement' = IF measurement.runs = 1 /\ DataPointFrame[r]
                                THEN [measurement EXCEPT !.frames = @ + 1]
                                ELSE measurement
              /\ pc' = IF o.event \in {"raised", "end"} THEN "idle" ELSE "receiving"
              /\ ends' = IF o.event = "end"
                         THEN onVoltammetryEnd(onEndCallback, ends) ELSE ends
              /\ points' = IF o.event = "point"
                           THEN onVoltammetryPoint(onPointCallback, points,
                                                   Float(pointObjs[1]), Float(pointObjs[2]))
                           ELSE points
    /\ UNCHANGED <<command, written, nWrites, source, onPointCallback, onEndCallback,
                   checksumVars>>

Next ==
    \/ Construct
    \/ setCurrentRange
    \/ makeCyclicVoltammetry
    \/ makeDifferentialPulseVoltammetry
    \/ makeSquareWaveVoltammetry
    \/ receiveVoltammetryPoints
    \/ ReceiveIteration

Spec == Init /\ [][Next]_vars

(***************************************************************************)
(* Properties.                                                             *)
(***************************************************************************)
ERR_COMMA == S("ERR,")
CommandOperations ==
    {"setCurrentRange", "makeCyclicVoltammetry",
     "makeDifferentialPulseVoltammetry", "makeSquareWaveVoltammetry"}
IsFrameOf(l, payload) == \E t \in Terminators : l = DeviceFrame(payload, t)
ReceivedInRun ==
    /\ last.op = "receiveVoltammetryPoints"
    /\ last.read
    /\ message.ok

\* C1: frame round trip.  The bytes sendCommandToMCU writes for a payload,
\* returned unchanged by readline, are decoded by waitForMessage to that
\* payload.
C1_RoundTrip ==
    (pc = "decoded" /\ source = "echo") => (message.ok /\ message.msg = command)

\* C2: outbound wire format.  The bytes written for a payload are
\* '$' + payload + '*' + HH + CR LF, HH being the uppercase two-digit hex XOR
\* of the payload bytes.
C2_WireFormat ==
    nWrites > 0 =>
        written = DOLLAR \o command \o STAR
                    \o Format02X(calculateChecksumOfString(command)) \o CRLF

\* C3: inbound decode.  A line '$' + p + '*' + HH + CR LF with the correct
\* checksum is decoded by waitForMessage to exactly p.
C3_InboundDecode ==
    (pc = "decoded" /\ source = "crlf") => message = Returned(command)

\* C4: single-bit corruption.  A valid frame with one payload bit inverted
\* is rejected by waitForMessage as corrupted, never returned as a payload.
C4_BitFlipDetected ==
    (pc = "decoded" /\ source = "flip") => (~message.ok /\ message.err = "corrupted")

\* C5: checksum text round trip.  For every byte b, parsing the two
\* characters that format(b, '02X') produces yields b.
C5_ChecksumRoundTrip ==
    pc = "parsed" => (Len(checksumString) = 2 /\ integerChecksum = byte)

\* C5 witness: 0xAB is formatted as "AB" and parsed back to 171.
C5_Witness ==
    /\ pc = "parsed"
    /\ byte = 171
    /\ checksumString = S("AB")
    /\ integerChecksum = 171

\* C6: mid-stream device error.  Every checksum-valid frame whose payload
\* begins with "ERR," stops the receive loop with an error, without an
\* onPoint call for that frame.
C6_ErrStopsRun ==
    (ReceivedInRun /\ StartsWith(message.msg, ERR_COMMA)) =>
        (last.raised /\ last.event = "raised" /\ pc = "idle")

C8_ReadyHandshake ==
    last.op = "__init__" =>
        /\ pc = "idle" <=> (last.read /\ IsFrameOf(line, MSG_RDY))
        /\ pc # "idle" => (pc = "failed" /\ last.raised /\ nWrites = 0)

\* C9: command acknowledgement.  A command operation writes once, reads one
\* frame, and fails if and only if that frame's payload begins with "ERR".
C9_Acknowledgement ==
    (last.op \in CommandOperations /\ last.wrote) =>
        /\ last.read
        /\ message.ok => (last.raised <=> StartsWith(message.msg, ERR))

\* C10: setCurrentRange returns True when the acknowledgement is not an
\* error and False when the device answers with an ERR frame.
C10_BooleanOutcome ==
    (last.op = "setCurrentRange" /\ last.wrote /\ message.ok) =>
        /\ ~last.raised
        /\ last.ret = (IF StartsWith(message.msg, ERR) THEN "False" ELSE "True")

\* the line without its terminator (LF or CR LF)
Unterminated(l) ==
    IF TakeLast(l, 2) = CRLF THEN DropLast(l, 2)
    ELSE IF TakeLast(l, 1) = LF THEN DropLast(l, 1)
    ELSE l
HasEnvelope(l) ==
    LET u == Unterminated(l)
    IN  /\ Len(u) >= 4
        /\ u[1] = 36
        /\ u[Len(u) - 2] = 42
IsHexDigit(c) ==
    \/ (c >= 48 /\ c <= 57)
    \/ (c >= 65 /\ c <= 70)
    \/ (c >= 97 /\ c <= 102)
ChecksumField(l) == TakeLast(Unterminated(l), 2)

\* C11: envelope validation.  waitForMessage returns a payload only for a
\* line that starts with '$' and ends, before the terminator, with '*' and
\* two checksum characters; every other line is rejected.
C11_EnvelopeValidated ==
    (last.read /\ message.ok) => HasEnvelope(line)

\* C12: malformed checksum field.  A frame whose two-character checksum
\* field holds a character that is not a hexadecimal digit is rejected,
\* whatever its payload.
C12_MalformedChecksumRejected ==
    (last.read /\ HasEnvelope(line)
        /\ \E i \in 1..2 : ~IsHexDigit(ChecksumField(line)[i]))
    => ~message.ok

\* the cause of a failure, by what the transport did: r is the outcome of
\* opening the port, of the write, or of the read
Cause(r) ==
    IF r \in {OpenFailure, WriteFailure, ReadFailure} THEN "transport"
    ELSE IF ~Received[r].ok THEN "corrupted"
    ELSE IF StartsWith(Received[r].msg, ERR) THEN "rejected"
    ELSE "other"
Causes == {"transport", "corrupted", "rejected"}
\* the transport outcome behind the last operation
LastOutcome ==
    IF last.read THEN (IF line = <<>> THEN ReadFailure ELSE line)
    ELSE IF last.op = "__init__" THEN OpenFailure
    ELSE WriteFailure
\* the error the caller of operation op sees for the transport outcome r:
\* <<message, reason>>, or <<>> when nothing is raised
ErrorSeen(op, wrapper, r) ==
    LET o == IF op = "__init__" THEN InitOutcome(r)
             ELSE IF op = "receiveVoltammetryPoints"
             THEN (IF r = WriteFailure THEN [raised |-> FALSE]
                   ELSE LET e == ReceiveOutcome(Received[r])
                        IN  [raised |-> e.event = "raised", error |-> e.reason,
                             reason |-> e.reason])
             ELSE CommandOutcome(r, wrapper)
    IN  IF o.raised THEN <<o.error, o.reason>> ELSE <<>>
Outcomes(op) ==
    ReadOutcomes \cup (IF op = "__init__" THEN {OpenFailure}
                       ELSE IF op = "receiveVoltammetryPoints" THEN {}
                       ELSE {WriteFailure})

\* C13: errors stay distinguishable.  When an operation raises because of
\* a transport failure, a corrupted frame or a device rejection, the error
\* the caller sees is not the error the same operation raises for either
\* of the other two causes.
C13_ErrorsDistinguishable ==
    (last.raised /\ Cause(LastOutcome) \in Causes)
    => \A r \in Outcomes(last.op) :
          (Cause(r) \in Causes /\ Cause(r) # Cause(LastOutcome))
          => ErrorSeen(last.op, last.error, r) # <<last.error, last.reason>>

WrittenPayload == SubSeq(written, 2, Len(written) - 3)

\* C16: command payload layout.  The payload a command operation writes is
\* the operation code (or CMD,CUR for setCurrentRange) followed by the
\* operation's arguments in declared order, joined by single commas, with
\* nothing added or dropped; cyclic voltammetry of (1000,-500,500,200,5,2)
\* writes CVW,1000,-500,500,200,5,2.
C16_CommandPayloadLayout ==
    last.wrote =>
        LET fields == Split(WrittenPayload)
            head == IF last.op = "setCurrentRange" THEN 2 ELSE 1
        IN  /\ WrittenPayload = command
            /\ written[1] = 36
            /\ written[Len(written) - 2] = 42
            /\ Len(fields) = head + Len(last.args)
            /\ IF last.op = "setCurrentRange"
               THEN Len(last.args) = 1 /\ fields[1] = S("CMD") /\ fields[2] = S("CUR")
               ELSE fields[1] = OperationCode(last.op)
                    /\ Len(last.args) = (CASE last.op = "makeCyclicVoltammetry" -> 6
                                           [] last.op = "makeDifferentialPulseVoltammetry" -> 9
                                           [] last.op = "makeSquareWaveVoltammetry" -> 7)
            /\ \A i \in 1..Len(last.args) :
                  /\ IsFloat(fields[head + i])
                  /\ Float(fields[head + i]) = [num |-> last.args[i], scale |-> 0]
                  /\ Len(fields[head + i]) = Len(IntStr(last.args[i]))
            /\ (last.op = "makeCyclicVoltammetry"
                  /\ last.args = <<1000, -500, 500, 200, 5, 2>>)
               => WrittenPayload = S("CVW,1000,-500,500,200,5,2")
\* cyclic voltammetry with a negative starting and a positive ending potential
\* has been written
C16_Witness ==
    /\ last.op = "makeCyclicVoltammetry"
    /\ last.wrote
    /\ last.args = <<1000, -500, 500, 200, 5, 2>>
    /\ written = DOLLAR \o S("CVW,1000,-500,500,200,5,2") \o STAR \o S("5B")

\* the comma-separated fields after the 4-character prefix of the message
PointFields(m) == Split(SliceFrom(m, 4))

\* C17: malformed data point.  A checksum-valid frame read by
\* receiveVoltammetryPoints that is neither MSG,END nor an ERR message and
\* does not have exactly two fields after its prefix raises an error and is
\* not delivered to onPoint.
C17_MalformedPointRejected ==
    (ReceivedInRun
        /\ message.msg # MSG_END
        /\ ~StartsWith(message.msg, ERR)
        /\ Len(PointFields(message.msg)) # 2)
    => (last.raised /\ last.event # "point")

\* C18: point frames belong to the running measurement.  onPoint is invoked
\* for a frame only if the first field of its payload is the operation code
\* of the measurement command that was last sent.
C18_PointOfRunningMeasurement ==
    (ReceivedInRun /\ last.event = "point" /\ onPointCallback = "callable")
    => (measurement.code # <<>> /\ Split(message.msg)[1] = measurement.code)

MeasurementOperations ==
    {"makeCyclicVoltammetry", "makeDifferentialPulseVoltammetry",
     "makeSquareWaveVoltammetry"}
\* MSG,END has been processed
Ended ==
    /\ last.op = "receiveVoltammetryPoints"
    /\ last.read
    /\ message.ok
    /\ message.msg = MSG_END
\* the handshake failed, the device rejected a measurement command, or an
\* ERR frame or a corrupt frame arrived while streaming
Faulted ==
    \/ (last.op = "__init__" /\ last.raised)
    \/ /\ last.op \in MeasurementOperations
       /\ last.read
       /\ message.ok
       /\ StartsWith(message.msg, ERR)
    \/ /\ last.op = "receiveVoltammetryPoints"
       /\ last.read
       /\ \/ message.ok /\ StartsWith(message.msg, ERR)
          \/ message.err = "corrupted"

\* C19: Ended and Faulted are terminal, and streaming follows the protocol.
\* Once MSG,END was processed or a fault occurred, no step reads from or
\* writes to the transport or invokes a callback; and a frame is delivered
\* to a callback only after the ready handshake and an acknowledged
\* measurement command.
C19_TerminalStates ==
    [][/\ (Ended \/ Faulted)
            => /\ nReads' = nReads
               /\ nWrites' = nWrites
               /\ last'.event \notin {"point", "end"}
       /\ last'.event \in {"point", "end"}
            => /\ measurement'.acknowledged
               /\ pc' \in {"idle", "receiving"}]_vars

\* C14: in-order, one-to-one point delivery.  With a callable onPoint, each
\* line read in a run appends exactly one call onPoint(voltage, current) when
\* it is a data-point frame, voltage and current being its second and third
\* field, and no call otherwise, so the calls of a run are the data-point
\* frames read, in order; CVW,1.5,-0.25 gives (1.5, -0.25).
C14_InOrderDelivery ==
    [][(pc = "receiving" /\ nReads' = nReads + 1 /\ onPointCallback = "callable")
       => /\ points' = IF message'.ok /\ IsDataPoint(message'.msg)
                       THEN Append(points, PointOf(message'.msg))
                       ELSE points
          /\ (message'.ok /\ message'.msg = S("CVW,1.5,-0.25"))
                => points'[Len(points')] = <<[num |-> 15, scale |-> 1],
                                             [num |-> 0 - 25, scale |-> 2]>>]_vars

\* C20: termination of the receive loop.  The run is over at the first
\* MSG,END frame and at the first frame whose payload begins with ERR: after
\* such a frame was read in a run, the loop is left and reads nothing more.
C20_LoopTerminates ==
    (ReceivedInRun /\ (message.msg = MSG_END \/ StartsWith(message.msg, ERR)))
    => pc = "idle"

\* the run that follows the last measurement command is under way or over
InFollowingRun ==
    /\ last.op = "receiveVoltammetryPoints"
    /\ measurement.code # <<>>
    /\ measurement.runs = 1

\* C21: the acknowledgement frame is consumed and discarded.  A command
\* operation passes the frame it reads to neither callback; and when that
\* frame of a measurement command was a data point, the onPoint calls of the
\* following run are one fewer than the data-point frames the device sent
\* since the command.
C21_AcknowledgementDiscarded ==
    [][/\ last'.op \in CommandOperations => (points' = points /\ ends' = ends)
       /\ (InFollowingRun' /\ onPointCallback' = "callable" /\ measurement'.lost = 1)
            => Len(points') = measurement'.frames - 1]_vars

====
